---- MODULE Spec2Model ----
(***************************************************************************)
(* Lil' Grid Lab: the world simulation engine (world.py, things.py).       *)
(* The grid, the placement of things, the free-tile scan, the agents'      *)
(* energy economy, the resolution of actions and the per-tick protocol.    *)
(* Energies and costs are integers (fixed-point units of energy).          *)
(***************************************************************************)
EXTENDS Integers, Sequences, FiniteSets, TLC

(*************************** bounds of the model ***************************)
MaxWidth == 2
MaxHeight == 2
MaxEnergy == 3
MaxAgents == 2
MaxBlocks == 1
MaxTicks == 2
MaxTracked == 3
ScanMaxWidth == 3
ScanMaxHeight == 2
BitePower == 2
StepCost == 1
MoveCost == 1

(****************************** constants **********************************)
RANDOM_POSITION == << >>
\* Python's None as the value of a tick setting that is not given.
None == -1
\* An action strategy of ai.py, as against None for an agent without one.
SomeAction == 1
NON_RECHARGEABLE == "NON_RECHARGEABLE"
RECHARGEABLE == "RECHARGEABLE"
EVERLASTING == "EVERLASTING"
RESPAWNABLE == "RESPAWNABLE"
RecyclingTypes == {NON_RECHARGEABLE, RECHARGEABLE, EVERLASTING, RESPAWNABLE}

\* Action kinds (act.NONE is the REST action).
NONE == "NONE"
MOVE == "MOVE"
EAT == "EAT"
\* An action kind that execute_action has no branch for.
UNKNOWN == "UNKNOWN"
\* The eight unit offsets to an adjacent tile.
XY_8_DELTAS ==
    {d \in {-1, 0, 1} \X {-1, 0, 1} : d # <<0, 0>>}

\* Occupant references stored in world.things: 0 is None, i > 0 the agent
\* created i-th, -k the k-th block.
NoThing == 0
IsAgentRef(r) == r > 0
IsBlockRef(r) == r < 0

VARIABLES
    width, height,     \* world_def["width"], world_def["height"]
    adefs,             \* agents_def: the agent definitions
    nblocks,           \* blocks_def: n_instances of the block definition
    ratio,             \* act.ACTIONS_DEF[kind].energy_ratio
    things,            \* world.things: tile -> occupant reference
    energy_map,        \* world.energy_map: tile -> energy
    occupation_bitmap, \* world.occupation_bitmap: 1 unoccupied, 0 occupied
    objs,              \* the Agent objects created, by reference
    agents,            \* world.agents: the ordered list of references
    blocks,            \* world.blocks: the position of each block
    current_step,      \* world.current_step
    pc,                \* where the program is
    cons,              \* World.__init__: position in the construction loops
    idx,               \* World.step: agents before this index had their turn
    fatal,             \* the exception or failed assertion that ended the run
    last,              \* the operation that produced this state
    fft,               \* the latest find_free_tile call and its result
    pause_step,        \* world.pause_step (None: no pause tick)
    exit_if_empty,     \* world.exit_if_empty
    exit_step,         \* world.exit_step (None: no tick limit)
    paused,            \* world.paused
    step_by_step,      \* world.step_by_step
    user_break,        \* world.user_break
    n_active_agents,   \* world.n_active_agents
    end_reason,        \* world.end_reason
    tracked_agent      \* world.tracked_agent (None before the first agent)

\* The settings of the run, which nothing changes after construction.
settings == <<pause_step, exit_if_empty, exit_step>>

\* What the user's keys and the end of the loop change.
control == <<paused, step_by_step, user_break, end_reason, tracked_agent>>

vars ==
    <<width, height, adefs, nblocks, ratio, things, energy_map,
      occupation_bitmap, objs, agents, blocks, current_step, pc, cons, idx,
      fatal, last, fft, settings, control, n_active_agents>>

Tiles == (0 .. width - 1) \X (0 .. height - 1)

(**************************** pure helpers *********************************)
Min(a, b) == IF a < b THEN a ELSE b
Max(a, b) == IF a > b THEN a ELSE b

RECURSIVE SumSeq(_, _)
SumSeq(f, n) == IF n = 0 THEN 0 ELSE f[n] + SumSeq(f, n - 1)

RECURSIVE SumMap(_, _)
SumMap(m, S) ==
    IF S = {} THEN 0
    ELSE LET t == CHOOSE t \in S : TRUE IN m[t] + SumMap(m, S \ {t})

(****************************** the grid ***********************************)
\* World.tile_is_empty: the position is within the world's limits and free.
tile_is_empty(th, position) ==
    IF /\ 0 <= position[1] /\ position[1] <= width - 1
       /\ 0 <= position[2] /\ position[2] <= height - 1
    THEN th[position] = NoThing
    ELSE FALSE

\* One step of the scan of find_free_tile: x is incremented modulo width,
\* and y modulo height when x is back to 0.
ScanStepRowOnly(x, y) == <<(x + 1) % width, y>>

ScanStep(x, y) ==
    LET x1 == (x + 1) % width
    IN  <<x1, IF x1 = 0 THEN (y + 1) % height ELSE y>>

\* The verdict of find_free_tile when the scan is back on its starting tile.
ScanCompleteFound(x, y, n) ==
    [position |-> <<x, y>>, success |-> TRUE, steps |-> n]

ScanComplete(x, y, n) ==
    [position |-> RANDOM_POSITION, success |-> FALSE, steps |-> n]

\* The while loop of find_free_tile: ScanFrom is one turn from tile (x, y)
\* with n steps done so far, ScanAt the tests it makes on the next tile p.
RECURSIVE ScanFrom(_, _, _, _, _, _)
ScanAt(th, p, x0, y0, n) ==
    IF tile_is_empty(th, p)
    THEN [position |-> p, success |-> TRUE, steps |-> n]
    ELSE IF p = <<x0, y0>>
    THEN ScanComplete(p[1], p[2], n)
    ELSE ScanFrom(th, p[1], p[2], x0, y0, n)

ScanFrom(th, x, y, x0, y0, n) == ScanAt(th, ScanStep(x, y), x0, y0, n + 1)

\* World.find_free_tile, the two random draws being (x0, y0).
find_free_tile(th, x0, y0) ==
    IF tile_is_empty(th, <<x0, y0>>)
    THEN [position |-> <<x0, y0>>, success |-> TRUE, steps |-> 0]
    ELSE ScanFrom(th, x0, y0, x0, y0, 0)

\* The first branch of place_at: the target position and whether it can be
\* taken. 'tpos' is the thing's current position.
PlaceTarget(th, tpos, position, relocate, x0, y0) ==
    IF position = RANDOM_POSITION
    THEN find_free_tile(th, x0, y0)
    ELSE IF tile_is_empty(th, position) \/ position = tpos
    THEN [position |-> position, success |-> TRUE, steps |-> 0]
    ELSE IF relocate
    THEN find_free_tile(th, x0, y0)
    ELSE [position |-> position, success |-> FALSE, steps |-> 0]

\* place_at: a grid array with the thing's old tile cleared to 'v'.
ClearOldTileNever(m, tpos, v) == m

ClearOldTile(m, tpos, v) ==
    IF tpos # RANDOM_POSITION THEN [m EXCEPT ![tpos] = v] ELSE m

\* The second part of place_at, the outcome of the first being t: the
\* grid arrays, the thing's position and the value returned.
Placed(th, em, bm, ref, tpos, tenergy, t) ==
    IF t.success
    THEN [things |-> [ClearOldTile(th, tpos, NoThing) EXCEPT
                         ![t.position] = ref],
          energy_map |-> IF IsAgentRef(ref)
                         THEN [ClearOldTile(em, tpos, 0) EXCEPT
                                  ![t.position] = tenergy]
                         ELSE ClearOldTile(em, tpos, 0),
          occupation_bitmap |-> [ClearOldTile(bm, tpos, 1) EXCEPT
                                    ![t.position] = 0],
          position |-> t.position,
          success |-> TRUE]
    ELSE [things |-> th, energy_map |-> em, occupation_bitmap |-> bm,
          position |-> tpos,
          success |-> (tpos # RANDOM_POSITION
                       /\ t.position = RANDOM_POSITION)]

\* World.place_at for the thing with reference 'ref', current position
\* 'tpos' and (for an agent) energy 'tenergy'.
place_at(th, em, bm, ref, tpos, tenergy, position, relocate, x0, y0) ==
    Placed(th, em, bm, ref, tpos, tenergy,
           PlaceTarget(th, tpos, position, relocate, x0, y0))

(**************************** the agents ***********************************)
\* Agent.__init__ and initialize_state, from one agent definition.
\* np.zeros([3, 3]): a touch map with nothing in it.
ZeroTouchMap == [c \in (0 .. 2) \X (0 .. 2) |-> 0]

NewAgent(def) ==
    [position |-> def.initial_position,
     energy |-> def.initial_energy,
     max_energy |-> def.maximum_energy,
     bite_power |-> def.bite_power,
     step_cost |-> def.step_cost,
     move_cost |-> def.move_cost,
     recycling |-> def.recycling_type,
     action |-> def.action,
     dead_look |-> FALSE,
     steps |-> 0,
     current_energy_delta |-> 0,
     negative_touch_map |-> ZeroTouchMap,
     positive_touch_map |-> ZeroTouchMap,
     chosen_action_success |-> TRUE]

\* Agent.is_alive.
is_alive(a) == a.energy > 0

\* An index into a 3x3 touch map: numpy takes -3 .. 2 and raises IndexError
\* on anything else.
TouchIndexOK(i) == -3 <= i /\ i <= 2

\* The energy an update leaves the agent with.
ClampEnergyNoFloor(e, max_energy) == Min(e, max_energy)

ClampEnergy(e, max_energy) == Max(Min(e, max_energy), 0)

\* Agent.update_energy, the write of energy_used into a touch map of agent
\* a at the cell of source position s (a negative index counts from the
\* end); nothing is written if the index raises IndexError.
Touched(touch_map, a, s, energy_used) ==
    IF /\ TouchIndexOK(1 + s[1] - a.position[1])
       /\ TouchIndexOK(1 + s[2] - a.position[2])
    THEN [touch_map EXCEPT ![<<(1 + s[1] - a.position[1]) % 3,
                               (1 + s[2] - a.position[2]) % 3>>] =
                               @ + energy_used]
    ELSE touch_map

\* Agent.update_energy, the branch of an agent that is not EVERLASTING:
\* e1 is the energy after the update and s the source position. 'raised'
\* tells that the touch-map write raised IndexError, which leaves the
\* energy updated and the look unchanged.
EnergyUpdated(a, e1, s) ==
    [agent |-> [a EXCEPT
                  !.energy = e1,
                  !.current_energy_delta = @ + (e1 - a.energy),
                  !.negative_touch_map =
                      Touched(@, a, s, IF e1 - a.energy < 0
                                       THEN e1 - a.energy ELSE 0),
                  !.positive_touch_map =
                      Touched(@, a, s, IF e1 - a.energy < 0
                                       THEN 0 ELSE e1 - a.energy),
                  !.dead_look =
                      IF /\ TouchIndexOK(1 + s[1] - a.position[1])
                         /\ TouchIndexOK(1 + s[2] - a.position[2])
                         /\ e1 <= 0
                      THEN TRUE ELSE @],
     used |-> e1 - a.energy,
     raised |-> ~(/\ TouchIndexOK(1 + s[1] - a.position[1])
                  /\ TouchIndexOK(1 + s[2] - a.position[2]))]

\* An update_energy that treats every recycling policy alike.
update_energyOfAny(a, energy_delta, src) ==
    EnergyUpdated(a, ClampEnergy(a.energy + energy_delta, a.max_energy),
                  IF src = RANDOM_POSITION THEN a.position ELSE src)

\* Agent.update_energy. 'src' is delta_source_position (RANDOM_POSITION
\* stands for None).
update_energy(a, energy_delta, src) ==
    IF a.recycling = EVERLASTING
    THEN [agent |-> [a EXCEPT !.current_energy_delta = 0],
          used |-> energy_delta, raised |-> FALSE]
    ELSE EnergyUpdated(a, ClampEnergy(a.energy + energy_delta, a.max_energy),
                       IF src = RANDOM_POSITION THEN a.position ELSE src)

\* A respawn that leaves the touch maps as they are.
respawnTouched(a) ==
    [agent |-> [a EXCEPT !.energy = a.max_energy,
                         !.dead_look = FALSE,
                         !.steps = 0,
                         !.current_energy_delta = 0,
                         !.chosen_action_success = TRUE],
     used |-> a.max_energy - a.energy, raised |-> FALSE]

\* Agent.respawn.
respawn(a) ==
    [agent |-> [a EXCEPT !.energy = a.max_energy,
                         !.dead_look = FALSE,
                         !.steps = 0,
                         !.current_energy_delta = 0,
                         !.negative_touch_map = ZeroTouchMap,
                         !.positive_touch_map = ZeroTouchMap,
                         !.chosen_action_success = TRUE],
     used |-> a.max_energy - a.energy, raised |-> FALSE]

\* World.update_agent_energy, after the agent's method returned r: the
\* mirror of the agent's energy on the tile of its position.
EnergyNotMirrored(ob, em, id, r) ==
    [objs |-> [ob EXCEPT ![id] = r.agent], energy_map |-> em,
     used |-> r.used, raised |-> r.raised]

EnergyMirrored(ob, em, id, r) ==
    [objs |-> [ob EXCEPT ![id] = r.agent],
     energy_map |-> IF r.raised THEN em
                    ELSE [em EXCEPT ![r.agent.position] = r.agent.energy],
     used |-> r.used, raised |-> r.raised]

\* World.update_agent_energy with a delta.
update_agent_energy(ob, em, id, energy_delta, src) ==
    EnergyMirrored(ob, em, id, update_energy(ob[id], energy_delta, src))

\* World.update_agent_energy with energy_delta None: the respawn.
respawn_agent_energy(ob, em, id) ==
    EnergyMirrored(ob, em, id, respawn(ob[id]))

(************************ the action resolver ******************************)
\* An index of a numpy array of length n: -n .. n-1 are taken, a negative
\* one counting from the end; anything else raises IndexError.
ArrayIndexOK(i, n) == -n <= i /\ i <= n - 1
ArrayIndex(i, n) == IF i < 0 THEN i + n ELSE i

\* The cost of the action itself, if it is actually made.
ActionDelta(a, kind) == a.move_cost * ratio[kind]

\* The affordability gate of execute_action.
NotAffordableStepFree(a, kind) == a.energy + ActionDelta(a, kind) < 0

NotAffordable(a, kind) == a.energy + ActionDelta(a, kind) + a.step_cost < 0

\* What execute_action charges for a MOVE, by the result of place_at.
MoveEnergyDeltaAlways(a, success) == ActionDelta(a, MOVE) + a.step_cost

MoveEnergyDelta(a, success) ==
    (IF success THEN ActionDelta(a, MOVE) ELSE 0) + a.step_cost

\* The outcome of execute_action: the grid, the agents, the value of
\* 'success', the local 'energy_delta', and the exception raised if any.
Outcome(th, em, bm, ob, success, energy_delta, raised) ==
    [things |-> th, energy_map |-> em, occupation_bitmap |-> bm, objs |-> ob,
     success |-> success, energy_delta |-> energy_delta, raised |-> raised]

\* The end of a branch of execute_action whose last update_agent_energy
\* returned r.
Charged(th, bm, r, success, energy_delta) ==
    Outcome(th, r.energy_map, bm, r.objs, success, energy_delta, "none")

\* execute_action, branch "not enough energy" and branch act.NONE.
ExecuteCostOnly(th, em, bm, ob, id, success, energy_delta) ==
    Charged(th, bm,
            update_agent_energy(ob, em, id, energy_delta, RANDOM_POSITION),
            success, energy_delta)

\* execute_action, branch act.MOVE, after place_at returned p.
MovePlaced(ob, id, p) ==
    Charged(p.things, p.occupation_bitmap,
            update_agent_energy([ob EXCEPT ![id].position = p.position],
                                p.energy_map, id,
                                MoveEnergyDelta(ob[id], p.success),
                                RANDOM_POSITION),
            p.success, MoveEnergyDelta(ob[id], p.success))

\* execute_action, branch act.MOVE.
ExecuteMove(th, em, bm, ob, id, d) ==
    MovePlaced(ob, id,
               place_at(th, em, bm, id, ob[id].position, ob[id].energy,
                        <<ob[id].position[1] + d[1],
                          ob[id].position[2] + d[2]>>,
                        FALSE, 0, 0))

\* execute_action, branch act.EAT, after the predator got what it took:
\* r3 is what its update_agent_energy returned.
EatGained(th, bm, was, a, action_delta, r3) ==
    IF r3.raised
    THEN Outcome(th, r3.energy_map, bm, r3.objs, was, 0, "IndexError")
    ELSE Outcome(th, r3.energy_map, bm, r3.objs, action_delta > 0,
                 action_delta + a.step_cost, "none")

\* execute_action, branch act.EAT, after the bite: r2 is what the prey's
\* update_agent_energy returned, a the predator.
EatBitten(th, bm, id, was, a, prey, r2) ==
    IF r2.raised
    THEN Outcome(th, r2.energy_map, bm, r2.objs, was, 0, "IndexError")
    ELSE EatGained(th, bm, was, a, ActionDelta(a, EAT) + (-r2.used),
                   update_agent_energy(r2.objs, r2.energy_map, id,
                                       ActionDelta(a, EAT) + (-r2.used),
                                       r2.objs[prey].position))

\* execute_action, branch act.EAT: max_possible_bite of the predator a.
MaxPossibleBiteAnyRoom(a) == a.bite_power

MaxPossibleBite(a) == Min(a.bite_power, a.max_energy - a.energy)

\* execute_action, branch act.EAT, 'prey' being what world.things holds
\* at the tile bitten and a the predator, step_cost paid.
EatPrey(th, bm, id, was, r1, a, prey) ==
    IF IsAgentRef(prey) /\ \E k \in 1 .. Len(agents) : agents[k] = prey
    THEN EatBitten(th, bm, id, was, a, prey,
                   update_agent_energy(r1.objs, r1.energy_map, prey,
                                       -MaxPossibleBite(a), a.position))
    ELSE Outcome(th, r1.energy_map, bm, r1.objs, FALSE, 0 + a.step_cost,
                 "none")

\* execute_action, branch act.EAT, after step_cost was paid: r1 is what
\* update_agent_energy returned, 'was' the chosen_action_success the agent
\* keeps if the read of world.things raises IndexError.
EatPaid(th, bm, id, d, was, r1) ==
    IF ~(/\ ArrayIndexOK(r1.objs[id].position[1] + d[1], width)
         /\ ArrayIndexOK(r1.objs[id].position[2] + d[2], height))
    THEN Outcome(th, r1.energy_map, bm, r1.objs, was, 0, "IndexError")
    ELSE EatPrey(th, bm, id, was, r1, r1.objs[id],
                 th[<<ArrayIndex(r1.objs[id].position[1] + d[1], width),
                      ArrayIndex(r1.objs[id].position[2] + d[2], height)>>])

\* execute_action, branch act.EAT.
ExecuteEat(th, em, bm, ob, id, d) ==
    EatPaid(th, bm, id, d, ob[id].chosen_action_success,
            update_agent_energy(ob, em, id, ob[id].step_cost,
                                RANDOM_POSITION))

\* The branches of World.execute_action.
Resolved(th, em, bm, ob, id, kind, d) ==
    IF kind \notin DOMAIN ratio
    THEN Outcome(th, em, bm, ob, ob[id].chosen_action_success, 0,
                 "LookupError")
    ELSE IF NotAffordable(ob[id], kind)
    THEN ExecuteCostOnly(th, em, bm, ob, id, FALSE, 0 + ob[id].step_cost)
    ELSE IF kind = NONE
    THEN ExecuteCostOnly(th, em, bm, ob, id, TRUE,
                         ActionDelta(ob[id], NONE) + ob[id].step_cost)
    ELSE IF kind = MOVE
    THEN ExecuteMove(th, em, bm, ob, id, d)
    ELSE IF kind = EAT
    THEN ExecuteEat(th, em, bm, ob, id, d)
    ELSE Outcome(th, em, bm, ob, ob[id].chosen_action_success, 0,
                 "Exception: Invalid action type")

\* The assignment of chosen_action_success that ends execute_action.
SuccessSet(id, o) ==
    IF o.raised # "none" THEN o
    ELSE [o EXCEPT !.objs[id].chosen_action_success = o.success]

\* World.execute_action.
execute_action(th, em, bm, ob, id, kind, d) ==
    SuccessSet(id, Resolved(th, em, bm, ob, id, kind, d))

(*************************** the step scheduler ****************************)
\* A pre_step that keeps the net change of the tick before.
pre_step_agentKept(a) == a

\* Agent.pre_step.
pre_step_agent(a) == [a EXCEPT !.current_energy_delta = 0]

\* Agent.post_step: the learning hook reads and the step counter.
post_step_agent(a) == [a EXCEPT !.steps = @ + 1]

\* The agents of world.agents that post_step respawns.
Respawning(ob, ags) ==
    {ags[k] : k \in {j \in 1 .. Len(ags) :
                       /\ ob[ags[j]].energy <= 0
                       /\ ob[ags[j]].recycling = RESPAWNABLE}}

\* post_step, the respawn of agent id: the state once place_at returned p.
Relocated(id, ob, p) ==
    [things |-> p.things,
     energy_map |-> p.energy_map,
     occupation_bitmap |-> p.occupation_bitmap,
     objs |-> [ob EXCEPT ![id].position = p.position],
     raised |-> IF p.success THEN "none" ELSE "AssertionError: place_at"]

\* post_step, the respawn of agent id once update_agent_energy returned r;
\* t0 is the starting tile find_free_tile draws.
RespawnedAt(st, id, t0, r) ==
    Relocated(id, r.objs,
              place_at(st.things, r.energy_map, st.occupation_bitmap, id,
                       r.objs[id].position, r.objs[id].energy,
                       RANDOM_POSITION, FALSE, t0[1], t0[2]))

Respawned(st, id, t0) ==
    RespawnedAt(st, id, t0, respawn_agent_energy(st.objs, st.energy_map, id))

\* The loop of post_step over world.agents from index k on; draws[id] is
\* the starting tile find_free_tile draws for the respawn of agent id.
RECURSIVE PostAgents(_, _, _)
PostAgents(st, k, draws) ==
    IF k > Len(agents) \/ st.raised # "none" THEN st
    ELSE IF /\ st.objs[agents[k]].energy <= 0
            /\ st.objs[agents[k]].recycling = RESPAWNABLE
    THEN PostAgents(Respawned(st, agents[k], draws[agents[k]]), k + 1, draws)
    ELSE PostAgents([st EXCEPT
                       !.objs[agents[k]] = post_step_agent(@)],
                    k + 1, draws)

\* An insertion that puts the agent ahead of those of its energy.
RECURSIVE InsertByEnergyAhead(_, _, _)
InsertByEnergyAhead(sorted, id, ob) ==
    IF sorted = << >> THEN <<id>>
    ELSE IF ob[Head(sorted)].energy > ob[id].energy
    THEN <<Head(sorted)>> \o InsertByEnergyAhead(Tail(sorted), id, ob)
    ELSE <<id>> \o sorted

\* list.sort(key=energy, reverse=True): the stable sort, by insertion.
RECURSIVE InsertByEnergy(_, _, _)
InsertByEnergy(sorted, id, ob) ==
    IF sorted = << >> THEN <<id>>
    ELSE IF ob[Head(sorted)].energy >= ob[id].energy
    THEN <<Head(sorted)>> \o InsertByEnergy(Tail(sorted), id, ob)
    ELSE <<id>> \o sorted

RECURSIVE SortByEnergy(_, _)
SortByEnergy(ags, ob) ==
    IF ags = << >> THEN << >>
    ELSE InsertByEnergy(SortByEnergy(SubSeq(ags, 1, Len(ags) - 1), ob),
                        ags[Len(ags)], ob)

\* The two totals the sanity check of post_step compares.
TotalMapEnergy(em) == SumMap(em, DOMAIN em)
TotalAgentEnergy(ob, ags) ==
    SumSeq([k \in 1 .. Len(ags) |-> ob[ags[k]].energy], Len(ags))

(************************* the state machine *******************************)
NoOp == [op |-> "none", id |-> 0, kind |-> NONE]
NoFFT == [called |-> FALSE, x0 |-> 0, y0 |-> 0,
          position |-> RANDOM_POSITION, success |-> FALSE, steps |-> 0]

\* The agent definitions of a simulation definition.
AgentDefs(positions, energies, recyclings) ==
    [n_instances : 1 .. MaxAgents,
     initial_position : positions,
     initial_energy : energies,
     maximum_energy : {MaxEnergy},
     bite_power : {BitePower},
     step_cost : {-StepCost},
     move_cost : {-MoveCost},
     recycling_type : recyclings,
     action : {SomeAction}]

Instances(defs) ==
    SumSeq([k \in 1 .. Len(defs) |-> defs[k].n_instances], Len(defs))

\* The lists of at most MaxAgents definitions of D that create at most
\* MaxAgents agents.
AgentDefLists(D) ==
    {defs \in UNION {[1 .. n -> D] : n \in 1 .. MaxAgents} :
        Instances(defs) <= MaxAgents}

\* The settings of world_def that rule the main loop.
WorldDefs(pauses, pauseSteps, empties, exitSteps) ==
    [initial_pause : pauses, pause_step : pauseSteps,
     exit_if_empty : empties, exit_step : exitSteps]

\* A world that starts running, with no pause tick and no exit condition.
FreeRun == WorldDefs({FALSE}, {None}, {FALSE}, {None})

\* The state a World object starts its construction in.
InitWorld(w, h, defLists, blockCounts, ratios, worldDefs) ==
    /\ \E world_def \in worldDefs :
         /\ paused = world_def.initial_pause
         /\ step_by_step = world_def.initial_pause
         /\ pause_step = world_def.pause_step
         /\ exit_if_empty = world_def.exit_if_empty
         /\ exit_step = world_def.exit_step
    /\ user_break = FALSE
    /\ end_reason = ""
    /\ n_active_agents = 0
    /\ tracked_agent = None
    /\ width = w
    /\ height = h
    /\ adefs \in defLists
    /\ nblocks \in blockCounts
    /\ ratio \in ratios
    /\ things = [t \in Tiles |-> NoThing]
    /\ energy_map = [t \in Tiles |-> 0]
    /\ occupation_bitmap = [t \in Tiles |-> 1]
    /\ objs = << >>
    /\ agents = << >>
    /\ blocks = << >>
    /\ current_step = 0
    /\ pc = "init"
    /\ cons = [d |-> 1, i |-> 0, b |-> 0]
    /\ idx = 0
    /\ fatal = "none"
    /\ last = NoOp
    /\ fft = NoFFT

Ratios == {[k \in {NONE, MOVE, EAT} |-> IF k = MOVE THEN 1 ELSE 0]}

\* The simulation definitions explored.
Init ==
    InitWorld(MaxWidth, MaxHeight,
              AgentDefLists(AgentDefs({RANDOM_POSITION, <<0, 0>>},
                                      {0, 1, MaxEnergy}, RecyclingTypes)),
              {MaxBlocks}, Ratios, FreeRun)

\* Where the construction loops stand after one more agent instance.
AfterAgent ==
    IF cons.i + 1 < adefs[cons.d].n_instances
    THEN [cons EXCEPT !.i = @ + 1]
    ELSE [cons EXCEPT !.d = @ + 1, !.i = 0]

ConstructionDone(c) == c.d > Len(adefs) /\ c.b >= nblocks

\* World.__init__, one agent: what follows place_at, which returned p for
\* the new agent a, of reference ref.
AgentPlaced(a, ref, p) ==
    /\ things' = p.things
    /\ energy_map' = p.energy_map
    /\ occupation_bitmap' = p.occupation_bitmap
    /\ objs' = IF p.success
               THEN Append(objs, [a EXCEPT !.position = p.position])
               ELSE objs
    /\ agents' = IF p.success THEN Append(agents, ref) ELSE agents
    /\ n_active_agents' = IF p.success /\ is_alive(a)
                          THEN n_active_agents + 1 ELSE n_active_agents
    /\ tracked_agent' = IF p.success /\ tracked_agent = None
                        THEN ref ELSE tracked_agent
    /\ last' = [NoOp EXCEPT !.op = "place_agent", !.id = ref]

\* World.__init__, one agent: the new agent a is handed to place_at with
\* its own position and relocate=True; t0 is the tile find_free_tile draws.
AgentCreated(a, ref, t0) ==
    AgentPlaced(a, ref,
                place_at(things, energy_map, occupation_bitmap, ref,
                         a.position, a.energy, a.position, TRUE,
                         t0[1], t0[2]))

\* World.__init__: one turn of the loop that puts the agents in the world.
PlaceAgent ==
    /\ pc = "init" /\ fatal = "none"
    /\ cons.d <= Len(adefs)
    /\ \E t0 \in Tiles :
         AgentCreated(NewAgent(adefs[cons.d]), Len(objs) + 1, t0)
    /\ cons' = AfterAgent
    /\ pc' = IF ConstructionDone(AfterAgent) THEN "idle" ELSE "init"
    /\ adefs' = IF ConstructionDone(AfterAgent) THEN << >> ELSE adefs
    /\ UNCHANGED <<width, height, nblocks, ratio, blocks,
                   current_step, idx, fatal, fft, settings, paused,
                   step_by_step, user_break, end_reason>>

\* World.__init__, one block: what follows place_at, which returned p for
\* the new block, of reference ref.
BlockPlaced(ref, p) ==
    /\ things' = p.things
    /\ energy_map' = p.energy_map
    /\ occupation_bitmap' = p.occupation_bitmap
    /\ blocks' = IF p.success THEN Append(blocks, p.position) ELSE blocks
    /\ last' = [NoOp EXCEPT !.op = "place_block", !.id = ref]

\* World.__init__: one turn of the loop that puts the blocks in the world.
PlaceBlock ==
    /\ pc = "init" /\ fatal = "none"
    /\ cons.d > Len(adefs) /\ cons.b < nblocks
    /\ \E t0 \in Tiles :
         BlockPlaced(-(Len(blocks) + 1),
                     place_at(things, energy_map, occupation_bitmap,
                              -(Len(blocks) + 1), RANDOM_POSITION, 0,
                              RANDOM_POSITION, FALSE, t0[1], t0[2]))
    /\ cons' = [cons EXCEPT !.b = @ + 1]
    /\ pc' = IF ConstructionDone([cons EXCEPT !.b = @ + 1])
             THEN "idle" ELSE "init"
    /\ adefs' = IF ConstructionDone([cons EXCEPT !.b = @ + 1])
                THEN << >> ELSE adefs
    /\ UNCHANGED <<width, height, nblocks, ratio, objs, agents,
                   current_step, idx, fatal, fft, settings, control,
                   n_active_agents>>

\* World.step, first part: pre_step.
PreStep ==
    /\ pc = "idle" /\ fatal = "none"
    /\ current_step < MaxTicks
    /\ objs' = [id \in DOMAIN objs |-> pre_step_agent(objs[id])]
    /\ pc' = "act"
    /\ idx' = 1
    /\ last' = [NoOp EXCEPT !.op = "pre_step"]
    /\ UNCHANGED <<width, height, adefs, nblocks, ratio, things, energy_map,
                   occupation_bitmap, agents, blocks, current_step, cons,
                   fatal, fft, settings, control, n_active_agents>>

\* The indexes of world.agents left in the loop, no filter applied.
PendingUnfiltered == idx .. Len(agents)

\* The indexes of world.agents the filter of step() still yields.
Pending == {k \in idx .. Len(agents) : is_alive(objs[agents[k]])}
NextTurn == CHOOSE k \in Pending : \A j \in Pending : k <= j

\* Agent.update_after_action (reset_touch_maps), which an exception of
\* execute_action does not let step() reach.
update_after_action(ob, id, raised) ==
    IF raised # "none" THEN ob
    ELSE [ob EXCEPT ![id].negative_touch_map = ZeroTouchMap,
                    ![id].positive_touch_map = ZeroTouchMap]

\* World.step, one turn of the loop, after execute_action returned o.
Acted(id, kind, o) ==
    /\ things' = o.things
    /\ energy_map' = o.energy_map
    /\ occupation_bitmap' = o.occupation_bitmap
    /\ objs' = update_after_action(o.objs, id, o.raised)
    /\ fatal' = o.raised
    /\ last' = [op |-> "act", id |-> id, kind |-> kind]

\* World.step, one turn of the loop for an agent whose action strategy is
\* None: Agent.choose_action calls it, which raises TypeError.
NotCallable(id) ==
    /\ fatal' = "TypeError"
    /\ last' = [op |-> "choose_action", id |-> id, kind |-> NONE]
    /\ UNCHANGED <<things, energy_map, occupation_bitmap, objs>>

\* World.step, one turn of the loop: the agent's choice (kind, d), then
\* execute_action and update_after_action.
Act(kind, d) ==
    /\ pc = "act" /\ fatal = "none"
    /\ Pending # {}
    /\ IF objs[agents[NextTurn]].action = None
       THEN NotCallable(agents[NextTurn])
       ELSE Acted(agents[NextTurn], kind,
                  execute_action(things, energy_map, occupation_bitmap, objs,
                                 agents[NextTurn], kind, d))
    /\ idx' = NextTurn + 1
    /\ UNCHANGED <<width, height, adefs, nblocks, ratio, agents, blocks,
                   current_step, pc, cons, fft, settings, control,
                   n_active_agents>>

Rest == Act(NONE, <<0, 0>>)
Move == \E d \in XY_8_DELTAS : Act(MOVE, d)
Eat == \E d \in XY_8_DELTAS : Act(EAT, d)

\* post_step: the agents that is_alive() counts, each after its respawn
\* or post_step.
\* Every agent of the list counts, alive or not.
NActiveAll(ob, ags) == Len(ags)

NActive(ob, ags) ==
    Cardinality({k \in 1 .. Len(ags) : is_alive(ob[ags[k]])})

\* post_step: the sanity check of the energy totals fails.
Mismatch(st) ==
    TotalMapEnergy(st.energy_map) # TotalAgentEnergy(st.objs, agents)

\* post_step after the loop over the agents, which ended in st: the
\* sanity check, the sort and the step counter.
\* The pause tick never comes.
PauseTickNever(step) == FALSE

\* World.post_step: if self.current_step == self.pause_step.
PauseTick(step) == step = pause_step

Checked(st, failed) ==
    /\ things' = st.things
    /\ energy_map' = st.energy_map
    /\ occupation_bitmap' = st.occupation_bitmap
    /\ objs' = st.objs
    /\ fatal' = IF st.raised # "none" THEN st.raised
                ELSE IF failed THEN "AssertionError: total energy mismatch"
                ELSE "none"
    /\ agents' = IF failed THEN agents ELSE SortByEnergy(agents, st.objs)
    /\ current_step' = IF failed THEN current_step ELSE current_step + 1
    /\ paused' = IF ~failed /\ PauseTick(current_step + 1)
                 THEN TRUE ELSE paused
    /\ step_by_step' = IF ~failed /\ PauseTick(current_step + 1)
                       THEN FALSE ELSE step_by_step
    /\ n_active_agents' = IF failed THEN n_active_agents
                          ELSE NActive(st.objs, agents)
    /\ pc' = IF failed THEN pc ELSE "idle"

LoopDone(st) == Checked(st, st.raised # "none" \/ Mismatch(st))

\* World.step, last part: post_step.
PostStep ==
    /\ pc = "act" /\ fatal = "none"
    /\ Pending = {}
    /\ \E draws \in [Respawning(objs, agents) -> Tiles] :
         LoopDone(PostAgents([things |-> things,
                              energy_map |-> energy_map,
                              occupation_bitmap |-> occupation_bitmap,
                              objs |-> objs, raised |-> "none"], 1, draws))
    /\ idx' = 0
    /\ last' = [NoOp EXCEPT !.op = "post_step"]
    /\ UNCHANGED <<width, height, adefs, nblocks, ratio, blocks, cons, fft,
                   settings, user_break, end_reason, tracked_agent>>

Next == PlaceAgent \/ PlaceBlock \/ PreStep \/ Rest \/ Move \/ Eat \/ PostStep

Spec == Init /\ [][Next]_vars

(************* other costs and energy ratios: SpecCosts ********************)
\* The agent definitions of a simulation definition, their step cost
\* being one of stepCosts.
AgentDefsCosting(positions, energies, recyclings, stepCosts) ==
    [n_instances : 1 .. MaxAgents,
     initial_position : positions,
     initial_energy : energies,
     maximum_energy : {MaxEnergy},
     bite_power : {BitePower},
     step_cost : stepCosts,
     move_cost : {-MoveCost},
     recycling_type : recyclings,
     action : {SomeAction}]

\* Energy ratios that make EAT cost as much as MOVE.
EatRatios == {[k \in {NONE, MOVE, EAT} |-> IF k = NONE THEN 0 ELSE 1]}

\* Simulation definitions of agents placed at random, with a step cost
\* of StepCost + 1 and an EAT that costs as much as a MOVE.
InitCosts ==
    InitWorld(MaxWidth, MaxHeight,
              AgentDefLists(AgentDefsCosting(
                  {RANDOM_POSITION}, {1, MaxEnergy}, RecyclingTypes,
                  {-(StepCost + 1)})),
              {MaxBlocks}, EatRatios, FreeRun)

SpecCosts == InitCosts /\ [][Next]_vars

(***************** a mind that errs in the kind: SpecKinds ******************)
\* World.step, one turn of the loop, the agent's choice being of a kind
\* other than NONE, MOVE and EAT.
Other == \E d \in XY_8_DELTAS \cup {<<0, 0>>} : Act(UNKNOWN, d)

\* Tables of energy ratios: one that has the other kind, which costs as
\* much as a MOVE, and one that has not.
KindRatios ==
    {[k \in {NONE, MOVE, EAT, UNKNOWN} |-> IF k = NONE THEN 0 ELSE 1]}
        \cup EatRatios

InitKinds ==
    InitWorld(MaxWidth, MaxHeight,
              AgentDefLists(AgentDefsCosting(
                  {RANDOM_POSITION}, {1, MaxEnergy}, RecyclingTypes,
                  {-(StepCost + 1)})),
              {MaxBlocks}, KindRatios, FreeRun)

NextKinds == Next \/ Other

SpecKinds == InitKinds /\ [][NextKinds]_vars

(********************** the main loop: SpecLoop ****************************)
\* World.is_end_loop: the value returned and the end_reason it stores.
is_end_loop ==
    IF user_break
    THEN [end |-> TRUE, end_reason |-> "USER BREAK"]
    ELSE IF exit_if_empty /\ n_active_agents = 0
    THEN [end |-> TRUE, end_reason |-> "EMPTY WORLD"]
    ELSE IF exit_step = None
    THEN [end |-> FALSE, end_reason |-> ""]
    ELSE [end |-> current_step >= exit_step,
          end_reason |-> IF current_step >= exit_step
                         THEN "EXIT STEP REACHED" ELSE ""]

\* main_loop, a turn in which is_end_loop returns true: the loop ends.
EndLoop ==
    /\ pc = "idle" /\ fatal = "none"
    /\ is_end_loop.end
    /\ end_reason' = is_end_loop.end_reason
    /\ pc' = "ended"
    /\ last' = [NoOp EXCEPT !.op = "end_loop"]
    /\ UNCHANGED <<width, height, adefs, nblocks, ratio, things, energy_map,
                   occupation_bitmap, objs, agents, blocks, current_step,
                   cons, idx, fatal, fft, settings, paused, step_by_step,
                   user_break, n_active_agents, tracked_agent>>

\* main_loop, a turn in which is_end_loop returns false (the end_reason
\* it stores is the empty one the world already has): step() is called,
\* whatever paused and step_by_step are.
LoopStep ==
    /\ ~is_end_loop.end
    /\ end_reason = is_end_loop.end_reason
    /\ PreStep

\* Worlds on a single row of tiles, which two entities fill, with every
\* setting of the pause tick and of the exit conditions.
InitLoop ==
    InitWorld(MaxWidth, 1,
              AgentDefLists(AgentDefs({RANDOM_POSITION}, {1, MaxEnergy},
                                      {NON_RECHARGEABLE, RESPAWNABLE})),
              {MaxBlocks}, Ratios,
              WorldDefs(BOOLEAN, {None} \cup 1 .. MaxTicks,
                        BOOLEAN, {None} \cup 0 .. MaxTicks))

NextLoop ==
    PlaceAgent \/ PlaceBlock \/ EndLoop \/ LoopStep \/ Rest \/ Move \/ Eat
        \/ PostStep

SpecLoop == InitLoop /\ [][NextLoop]_vars

\* The worlds of InitLoop that are not paused, at the start or later.
InitLoopFair ==
    InitWorld(MaxWidth, 1,
              AgentDefLists(AgentDefs({RANDOM_POSITION}, {1, MaxEnergy},
                                      {NON_RECHARGEABLE, RESPAWNABLE})),
              {MaxBlocks}, Ratios,
              WorldDefs({FALSE}, {None}, BOOLEAN, {None} \cup 0 .. MaxTicks))

\* main_loop is a sequential loop: while a turn of it can be taken, one is.
SpecLoopFair == InitLoopFair /\ [][NextLoop]_vars /\ WF_vars(NextLoop)

\* Worlds on a single row with one agent that cannot be recharged and has
\* energy for one tick, which end when they are empty and have no tick
\* limit.
InitEmpty ==
    InitWorld(MaxWidth, 1,
              {defs \in AgentDefLists(AgentDefs({RANDOM_POSITION}, {1},
                                                {NON_RECHARGEABLE,
                                                 RECHARGEABLE})) :
                  Instances(defs) = 1},
              {0, MaxBlocks}, Ratios,
              WorldDefs(BOOLEAN, {None} \cup 1 .. MaxTicks, {TRUE}, {None}))

SpecEmpty == InitEmpty /\ [][NextLoop]_vars /\ WF_vars(NextLoop)

(**************************** the user's keys ******************************)
\* The keys process_key_stroke tells apart: no key (-1), the arrow keys
\* (ui.KEY_LEFT, ui.KEY_SLEFT, ui.KEY_RIGHT, ui.KEY_SRIGHT, ui.KEY_UP,
\* ui.KEY_DOWN), space, Q, q, Tab, and any other key.
Keys ==
    {"-1", "KEY_LEFT", "KEY_SLEFT", "KEY_RIGHT", "KEY_SRIGHT", "KEY_UP",
     "KEY_DOWN", " ", "Q", "q", "Tab", "x"}

\* list.index: the first place of the agent in world.agents.
IndexOf(ags, id) == CHOOSE k \in 1 .. Len(ags) :
                       ags[k] = id /\ \A j \in 1 .. k - 1 : ags[j] # id

\* process_key_stroke, Tab: what ends the search at the agent of a place.
Trackable(ob, ags, k) ==
    ob[ags[k]].action # None /\ ob[ags[k]].energy > 0

\* A search that takes the next agent whatever it is.
TabSearchFirst(ob, ags, k, initial_idx, n) ==
    [agent |-> ags[IF k = Len(ags) THEN 1 ELSE k + 1], iterations |-> n + 1]

\* process_key_stroke, Tab: the while loop, entered with idx = k after n
\* iterations; gives the agent found and the iterations made.
RECURSIVE TabSearch(_, _, _, _, _)
TabSearch(ob, ags, k, initial_idx, n) ==
    IF \/ Trackable(ob, ags, IF k = Len(ags) THEN 1 ELSE k + 1)
       \/ (IF k = Len(ags) THEN 1 ELSE k + 1) = initial_idx
    THEN [agent |-> ags[IF k = Len(ags) THEN 1 ELSE k + 1],
          iterations |-> n + 1]
    ELSE TabSearch(ob, ags, IF k = Len(ags) THEN 1 ELSE k + 1,
                   initial_idx, n + 1)

\* A Q that breaks the run in whatever state the world is.
KeyControlQuitAlways(key) ==
    IF key \in {"Q", "q"} THEN <<FALSE, FALSE, TRUE>>
    ELSE <<paused, step_by_step, user_break>>

\* What process_key_stroke makes of paused, step_by_step and user_break.
KeyControl(key) ==
    IF key = "-1" THEN <<paused, step_by_step, user_break>>
    ELSE IF key \in {"KEY_LEFT", "KEY_SLEFT", "KEY_RIGHT", "KEY_SRIGHT",
                     "KEY_UP"}
    THEN <<paused, FALSE, user_break>>
    ELSE IF key = "KEY_DOWN" THEN <<FALSE, TRUE, user_break>>
    ELSE IF key = " "
    THEN IF paused \/ step_by_step THEN <<FALSE, FALSE, user_break>>
         ELSE <<TRUE, FALSE, user_break>>
    ELSE IF key \in {"Q", "q"}
    THEN IF paused \/ step_by_step THEN <<FALSE, FALSE, TRUE>>
         ELSE <<paused, step_by_step, user_break>>
    ELSE IF key = "Tab" THEN <<paused, step_by_step, user_break>>
    ELSE <<FALSE, FALSE, user_break>>

\* World.process_key_stroke, called between two ticks. (Tab with no agent
\* in the world: list.index raises ValueError.)
KeyStroke ==
    /\ pc = "idle" /\ fatal = "none"
    /\ \E key \in Keys :
         /\ paused' = KeyControl(key)[1]
         /\ step_by_step' = KeyControl(key)[2]
         /\ user_break' = KeyControl(key)[3]
         /\ tracked_agent' =
               IF key = "Tab" /\ tracked_agent # None
               THEN TabSearch(objs, agents, IndexOf(agents, tracked_agent),
                              IndexOf(agents, tracked_agent), 0).agent
               ELSE tracked_agent
         /\ fatal' = IF key = "Tab" /\ tracked_agent = None
                     THEN "ValueError" ELSE fatal
         /\ last' = [op |-> "key", id |-> 0, kind |-> key]
    /\ UNCHANGED <<width, height, adefs, nblocks, ratio, things, energy_map,
                   occupation_bitmap, objs, agents, blocks, current_step,
                   pc, cons, idx, fft, settings, end_reason, n_active_agents>>

\* The agent definitions with or without an action strategy.
AgentDefsMinded(positions, energies, recyclings, actions) ==
    [n_instances : 1 .. MaxAgents,
     initial_position : positions,
     initial_energy : energies,
     maximum_energy : {MaxEnergy},
     bite_power : {BitePower},
     step_cost : {-StepCost},
     move_cost : {-MoveCost},
     recycling_type : recyclings,
     action : actions]

\* Worlds on a single row of tiles, that start paused or not, with a pause
\* tick or none, whose agents are alive or dead and have an action strategy
\* or none.
InitKeys ==
    InitWorld(MaxWidth, 1,
              AgentDefLists(AgentDefsMinded({RANDOM_POSITION}, {0, MaxEnergy},
                                            {NON_RECHARGEABLE},
                                            {SomeAction, None})),
              {0}, Ratios,
              WorldDefs(BOOLEAN, {None, 1}, BOOLEAN, {None, MaxTicks}))

\* The main loop with key strokes handled between the ticks.
NextKeys ==
    PlaceAgent \/ EndLoop \/ LoopStep \/ Rest \/ Move \/ Eat \/ PostStep
        \/ KeyStroke

SpecKeys == InitKeys /\ [][NextKeys]_vars

\* The lists of up to MaxTracked definitions of one agent each.
TrackedDefLists ==
    UNION {[1 .. n -> {def \in AgentDefsMinded({RANDOM_POSITION},
                                               {0, MaxEnergy},
                                               {NON_RECHARGEABLE},
                                               {SomeAction, None}) :
                         def.n_instances = 1}] : n \in 1 .. MaxTracked}

\* Worlds of one row with up to MaxTracked agents, alive or dead, with an
\* action strategy or none, for the Tab key to choose from, before and
\* after their only tick.
InitTab ==
    InitWorld(MaxTracked, 1, TrackedDefLists, {0}, Ratios,
              WorldDefs({FALSE}, {None}, {FALSE}, {1}))

SpecTab == InitTab /\ [][NextKeys]_vars

(****************** find_free_tile on its own: SpecScan ********************)
\* The row-major rank of a tile.
TileRank(t) == t[2] * width + t[1]

\* A grid of the given size whose occupied tiles, the set S, hold blocks.
BlocksOn(S) ==
    [k \in 1 .. Cardinality(S) |->
        CHOOSE t \in S : Cardinality({u \in S : TileRank(u) <= TileRank(t)}) = k]

InitScan ==
    /\ width \in 1 .. ScanMaxWidth
    /\ height \in 1 .. ScanMaxHeight
    /\ \E S \in SUBSET Tiles :
         /\ blocks = BlocksOn(S)
         /\ things = [t \in Tiles |->
                IF t \in S
                THEN -Cardinality({u \in S : TileRank(u) <= TileRank(t)})
                ELSE NoThing]
         /\ occupation_bitmap = [t \in Tiles |-> IF t \in S THEN 0 ELSE 1]
    /\ energy_map = [t \in Tiles |-> 0]
    /\ adefs = << >>
    /\ nblocks = Len(blocks)
    /\ ratio \in Ratios
    /\ objs = << >>
    /\ agents = << >>
    /\ current_step = 0
    /\ pc = "scan"
    /\ cons = [d |-> 1, i |-> 0, b |-> nblocks]
    /\ idx = 0
    /\ fatal = "none"
    /\ last = NoOp
    /\ fft = NoFFT
    /\ pause_step = None
    /\ exit_if_empty = FALSE
    /\ exit_step = None
    /\ paused = FALSE
    /\ step_by_step = FALSE
    /\ user_break = FALSE
    /\ n_active_agents = 0
    /\ tracked_agent = None
    /\ end_reason = ""

\* The record of a call of find_free_tile that drew t0 and returned r.
Scanned(t0, r) ==
    [called |-> TRUE, x0 |-> t0[1], y0 |-> t0[2],
     position |-> r.position, success |-> r.success, steps |-> r.steps]

\* A call of find_free_tile, its two random draws being the tile t0.
CallFindFreeTile ==
    /\ pc = "scan"
    /\ \E t0 \in Tiles :
         fft' = Scanned(t0, find_free_tile(things, t0[1], t0[2]))
    /\ UNCHANGED <<width, height, adefs, nblocks, ratio, things, energy_map,
                   occupation_bitmap, objs, agents, blocks, current_step, pc,
                   cons, idx, fatal, last, settings, control,
                   n_active_agents>>

NextScan == CallFindFreeTile

SpecScan == InitScan /\ [][NextScan]_vars

(******************************* claims ************************************)
\* The entities of the world: the agents of world.agents, then the blocks.
EntityPositions ==
    [k \in 1 .. Len(agents) |-> objs[agents[k]].position] \o blocks

\* C1: from the end of World construction onward, no two distinct entities
\* of world.agents and world.blocks have the same position.
C1_NoSharedPosition ==
    pc # "init" =>
        \A j, k \in 1 .. Len(EntityPositions) :
            j # k => EntityPositions[j] # EntityPositions[k]

\* C2: the conservation assertion of post_step never fails, and at the end
\* of every completed tick the energy on the grid equals the agents' energy.
C2_ConservationHolds ==
    /\ fatal # "AssertionError: total energy mismatch"
    /\ (last.op = "post_step" /\ fatal = "none") =>
           TotalMapEnergy(energy_map) = TotalAgentEnergy(objs, agents)

\* C3: every agent's energy stays within 0 and its max_energy, after every
\* update of its energy and every respawn, for every recycling policy.
C3_EnergyBounds ==
    \A id \in DOMAIN objs :
        0 <= objs[id].energy /\ objs[id].energy <= objs[id].max_energy

\* C3 witness: a bite that asked for more than the prey had, so that the
\* prey's energy was cut off at 0 (the predator kept room for more).
C3_Witness ==
    /\ last.op = "act" /\ last.kind = EAT
    /\ objs[last.id].chosen_action_success
    /\ objs[last.id].recycling # EVERLASTING
    /\ objs[last.id].energy < objs[last.id].max_energy
    /\ objs[last.id].bite_power >= 2
    /\ \E prey \in DOMAIN objs :
         /\ prey # last.id
         /\ objs[prey].recycling # EVERLASTING
         /\ objs[prey].energy = 0
         /\ objs[prey].current_energy_delta = -1

\* C4: after every resolved action and every post-step, energy_map at a
\* tile is the energy of the Agent occupying it, and 0 on an empty tile or
\* under a Block.
C4_EnergyMirror ==
    (fatal = "none" /\ last.op \in {"act", "post_step"}) =>
        \A t \in Tiles :
            energy_map[t] = IF IsAgentRef(things[t])
                            THEN objs[things[t]].energy ELSE 0

\* C5: on a grid whose every tile is occupied, find_free_tile returns
\* failure (position RANDOM_POSITION, success false) after at most
\* width*height scan steps.
GridFull == \A t \in Tiles : things[t] # NoThing

C5_FullGridFails ==
    (fft.called /\ GridFull) =>
        /\ ~fft.success
        /\ fft.position = RANDOM_POSITION
        /\ fft.steps <= width * height

\* C5 witness: the scan of a full 2x2 grid went all the way round.
C5_Witness ==
    /\ fft.called /\ GridFull
    /\ width = 2 /\ height = 2
    /\ fft.steps = width * height

\* The number of scan steps from the starting tile of the call to tile t.
ScanOffset(t) ==
    (TileRank(t) - TileRank(<<fft.x0, fft.y0>>)) % (width * height)

\* C6: with at least one empty tile find_free_tile succeeds, and returns
\* the first empty tile met from the starting tile in row-major order with
\* wraparound.
C6_FirstEmptyTile ==
    (fft.called /\ ~GridFull) =>
        /\ fft.success
        /\ fft.position \in Tiles
        /\ things[fft.position] = NoThing
        /\ \A t \in Tiles :
             things[t] = NoThing => ScanOffset(fft.position) <= ScanOffset(t)
        /\ fft.steps = ScanOffset(fft.position)

\* C6 witness: the scan wrapped from the last row back to the first.
C6_Witness ==
    /\ fft.called /\ fft.success
    /\ height >= 2 /\ width >= 2
    /\ fft.position[2] < fft.y0
    /\ fft.steps > width

\* The PlaceAgent step of an agent whose declared initial position is the
\* tile of an entity placed earlier.
PlaceOnOccupied ==
    /\ pc = "init" /\ cons.d <= Len(adefs)
    /\ adefs[cons.d].initial_position # RANDOM_POSITION
    /\ things[adefs[cons.d].initial_position] # NoThing
    /\ last'.op = "place_agent"

\* C8: place_at with a concrete occupied position and relocate=true leaves
\* the previous occupant on the requested tile, with its energy mirror, and
\* puts the thing on a tile that was empty, or fails.
C8_RelocationKeepsOccupant ==
    [][PlaceOnOccupied =>
        LET p == adefs[cons.d].initial_position
        IN  /\ things'[p] = things[p]
            /\ energy_map'[p] = energy_map[p]
            /\ Len(agents') > Len(agents) =>
                   things[objs'[Len(objs')].position] = NoThing]_vars

\* A step of the loop of step() in which an agent resolved a MOVE, and
\* that agent.
MoveStep == pc = "act" /\ last'.op = "act" /\ last'.kind = MOVE
Mover == last'.id

\* The step is the turn of agent id choosing MOVE(d).
MoveTurn(id, d) == id = agents[NextTurn] /\ Act(MOVE, d)

Destination(id, d) ==
    <<objs[id].position[1] + d[1], objs[id].position[2] + d[2]>>

\* What a successful MOVE(d) of agent id does to the grid and the agent,
\* its energy apart.
MovedBy(id, d) ==
    /\ objs'[id].chosen_action_success
    /\ objs'[id].position = Destination(id, d)
    /\ things'[objs[id].position] = NoThing
    /\ occupation_bitmap'[objs[id].position] = 1
    /\ things'[Destination(id, d)] = id
    /\ occupation_bitmap'[Destination(id, d)] = 0

\* The cost of a MOVE that is made: |step_cost| + |move_cost * ratio|.
MoveCharge(id) ==
    -objs[id].step_cost + -(objs[id].move_cost * ratio[MOVE])

\* C9 as stated: a MOVE that passes the affordability gate and targets an
\* in-bounds empty tile succeeds, moves the agent, frees the old tile, and
\* decreases the agent's energy by exactly |step_cost| + |move_cost*ratio|.
C9_MoveSucceeds ==
    [][MoveStep => \A d \in XY_8_DELTAS :
        (/\ ~NotAffordable(objs[Mover], MOVE)
         /\ tile_is_empty(things, Destination(Mover, d))
         /\ MoveTurn(Mover, d))
        => /\ MovedBy(Mover, d)
           /\ objs'[Mover].energy = objs[Mover].energy - MoveCharge(Mover)]_vars

\* C9 amended: the same, the energy of an agent that is not EVERLASTING
\* decreasing by exactly |step_cost| + |move_cost*ratio| and the energy of
\* an EVERLASTING agent staying as it was.
C9_MoveSucceedsAmended ==
    [][MoveStep => \A d \in XY_8_DELTAS :
        (/\ ~NotAffordable(objs[Mover], MOVE)
         /\ tile_is_empty(things, Destination(Mover, d))
         /\ MoveTurn(Mover, d))
        => /\ MovedBy(Mover, d)
           /\ objs'[Mover].energy =
                IF objs[Mover].recycling = EVERLASTING
                THEN objs[Mover].energy
                ELSE objs[Mover].energy - MoveCharge(Mover)]_vars

\* C9 witness: an agent that is not EVERLASTING has moved and paid for it.
C9_Witness ==
    /\ last.op = "act" /\ last.kind = MOVE
    /\ objs[last.id].chosen_action_success
    /\ objs[last.id].recycling # EVERLASTING
    /\ things[objs[last.id].position] = last.id
    /\ objs[last.id].current_energy_delta = -(StepCost + MoveCost)

\* What a failed MOVE of agent id leaves of the grid and the entities.
NothingMoved(id) ==
    /\ things' = things
    /\ occupation_bitmap' = occupation_bitmap
    /\ blocks' = blocks
    /\ agents' = agents
    /\ objs'[id].position = objs[id].position
    /\ \A other \in DOMAIN objs : other # id => objs'[other] = objs[other]
    /\ ~objs'[id].chosen_action_success

\* The agent id has paid step_cost and nothing else: its energy drops by
\* it (down to 0 at most, and not at all if EVERLASTING), and step_cost is
\* the energy_delta execute_action charges for MOVE(d).
StepCostOnly(id, d) ==
    /\ objs'[id].energy =
         IF objs[id].recycling = EVERLASTING
         THEN objs[id].energy
         ELSE Max(objs[id].energy + objs[id].step_cost, 0)
    /\ execute_action(things, energy_map, occupation_bitmap, objs,
                      id, MOVE, d).energy_delta = objs[id].step_cost

\* C10: a MOVE whose destination is out of bounds or occupied by another
\* entity moves nothing: the agent's position, every tile's occupant and
\* occupancy flag and every other entity are unchanged, the action has
\* failed, and step_cost alone is charged (no move cost). (For each such
\* d, either the outcome is the one claimed or the step is no MOVE(d).)
C10_FailedMoveMovesNothing ==
    [][MoveStep => \A d \in XY_8_DELTAS :
        ~tile_is_empty(things, Destination(Mover, d))
        => \/ NothingMoved(Mover) /\ StepCostOnly(Mover, d)
           \/ ~MoveTurn(Mover, d)]_vars

\* C10 witness: an agent that could afford the move has been turned back
\* by an occupied or out-of-bounds destination, and paid step_cost only.
C10_Witness ==
    /\ last.op = "act" /\ last.kind = MOVE
    /\ ~objs[last.id].chosen_action_success
    /\ objs[last.id].recycling # EVERLASTING
    /\ objs[last.id].energy + ActionDelta(objs[last.id], MOVE) >= 0
    /\ objs[last.id].current_energy_delta = -StepCost

\* A step of the loop of step() in which an agent resolved an action of
\* the given kind, and that agent.
ActStep(kind) == pc = "act" /\ last'.op = "act" /\ last'.kind = kind
Actor == last'.id

\* The agent cannot pay for an action of the kind and the step.
GateClosed(id, kind) ==
    objs[id].energy + objs[id].move_cost * ratio[kind] + objs[id].step_cost
        < 0

\* The action of agent id was rejected: nothing moved, no other agent's
\* energy changed, and the action failed.
Rejected(id) ==
    /\ objs'[id].position = objs[id].position
    /\ things' = things
    /\ \A other \in DOMAIN objs :
         other # id => objs'[other].energy = objs[other].energy
    /\ ~objs'[id].chosen_action_success

\* C11 as stated: whenever energy + move_cost*energy_ratio(kind) +
\* step_cost < 0 for the acting agent, its MOVE or EAT is rejected: the
\* agent does not move, no other agent's energy changes, the action has
\* failed, and the agent's energy becomes max(0, energy + step_cost).
C11_GateRejects ==
    [][\A kind \in {MOVE, EAT} :
        (ActStep(kind) /\ GateClosed(Actor, kind))
        => /\ Rejected(Actor)
           /\ objs'[Actor].energy =
                Max(0, objs[Actor].energy + objs[Actor].step_cost)]_vars

\* C11 amended: the same, the energy of an agent that is not EVERLASTING
\* becoming max(0, energy + step_cost) and the energy of an EVERLASTING
\* agent staying as it was.
C11_GateRejectsAmended ==
    [][\A kind \in {MOVE, EAT} :
        (ActStep(kind) /\ GateClosed(Actor, kind))
        => /\ Rejected(Actor)
           /\ objs'[Actor].energy =
                IF objs[Actor].recycling = EVERLASTING
                THEN objs[Actor].energy
                ELSE Max(0, objs[Actor].energy + objs[Actor].step_cost)]_vars

\* C11 witness: an agent with less energy than the step costs chose EAT,
\* was rejected and is left with energy 0; no other agent lost or gained
\* energy in the tick.
C11_Witness ==
    /\ last.op = "act" /\ last.kind = EAT
    /\ ~objs[last.id].chosen_action_success
    /\ objs[last.id].recycling # EVERLASTING
    /\ objs[last.id].energy = 0
    /\ -objs[last.id].current_energy_delta < -objs[last.id].step_cost
    /\ Len(agents) > 1
    /\ \A other \in DOMAIN objs :
         other # last.id => objs[other].current_energy_delta = 0

\* C12: REST succeeds unconditionally: for every living agent and every
\* energy level, energy smaller than |step_cost| included, resolving a REST
\* sets chosen_action_success to true.
C12_RestSucceeds ==
    [][ActStep(NONE) => objs'[Actor].chosen_action_success]_vars

\* The world has a single agent, which is not EVERLASTING.
SingleAgent ==
    /\ agents = <<1>> /\ DOMAIN objs = {1}
    /\ objs[1].recycling # EVERLASTING

\* The single agent RESTs with energy >= |step_cost|, the ratio of REST
\* being 0: it pays |step_cost|, and so does the grid; it stays in place.
RestPaid ==
    (/\ SingleAgent /\ ActStep(NONE) /\ ratio[NONE] = 0
     /\ objs[1].energy >= -objs[1].step_cost)
    => /\ objs'[1].energy = objs[1].energy + objs[1].step_cost
       /\ TotalMapEnergy(energy_map') =
            TotalMapEnergy(energy_map) + objs[1].step_cost
       /\ objs'[1].position = objs[1].position
       /\ things' = things

\* The post_step of a tick in which the single agent RESTed with energy
\* >= |step_cost| (its energy before the REST is its energy less the
\* tick's delta).
PostStepOfRest ==
    /\ SingleAgent /\ ratio[NONE] = 0
    /\ pc = "act" /\ last.op = "act" /\ last.kind = NONE
    /\ objs[1].energy - objs[1].current_energy_delta >= -objs[1].step_cost
    /\ last'.op = "post_step"

\* The post_step leaves the agent and the grid's energy as the REST left
\* them, and its conservation check passes.
TickKept ==
    /\ fatal' = "none"
    /\ objs'[1].energy = objs[1].energy
    /\ objs'[1].position = objs[1].position
    /\ TotalMapEnergy(energy_map') = TotalMapEnergy(energy_map)
    /\ TotalMapEnergy(energy_map') = objs'[1].energy

EatTurn(id, d) == id = agents[NextTurn] /\ Act(EAT, d)

\* The agent id can pay for an action of the kind and the step.
GateOpen(id, kind) == ~GateClosed(id, kind)

\* What world.things holds on in-bounds tile t is a living agent that is
\* not EVERLASTING.
LivingPreyOn(t) ==
    /\ t \in Tiles
    /\ things[t] > 0
    /\ objs[things[t]].energy > 0
    /\ objs[things[t]].recycling # EVERLASTING

\* The energy of agent id once step_cost is charged to it.
EnergyAfterStepCost(id) ==
    IF objs[id].recycling = EVERLASTING THEN objs[id].energy
    ELSE Max(0, objs[id].energy + objs[id].step_cost)

\* bite = min(bite_power, max_energy - energy), step_cost charged.
Bite(id) ==
    Min(objs[id].bite_power, objs[id].max_energy - EnergyAfterStepCost(id))

\* C14: in an EAT that passes the gate and targets a living agent that is
\* not EVERLASTING, the prey's energy decreases by exactly
\* min(bite, prey.energy), where bite = min(bite_power, max_energy -
\* energy) of the predator after step_cost has been charged; the prey's
\* energy never goes below 0.
C14_BiteTaken ==
    [][ActStep(EAT) => \A d \in XY_8_DELTAS :
        (/\ GateOpen(Actor, EAT)
         /\ LivingPreyOn(Destination(Actor, d))
         /\ EatTurn(Actor, d))
        => LET prey == things[Destination(Actor, d)]
           IN  /\ objs'[prey].energy =
                    objs[prey].energy - Min(Bite(Actor), objs[prey].energy)
               /\ objs'[prey].energy >= 0]_vars

\* C14 witness: a predator with room for less than its bite_power has
\* bitten a prey that had more: the prey lost what the predator had room
\* for and lives on.
C14_Witness ==
    /\ last.op = "act" /\ last.kind = EAT /\ fatal = "none"
    /\ objs[last.id].chosen_action_success
    /\ objs[last.id].recycling # EVERLASTING
    /\ objs[last.id].energy = objs[last.id].max_energy
    /\ \E prey \in DOMAIN objs :
         /\ prey # last.id
         /\ objs[prey].recycling # EVERLASTING
         /\ objs[prey].energy > 0
         /\ objs[prey].current_energy_delta < 0
         /\ -objs[prey].current_energy_delta < objs[last.id].bite_power

\* What world.things holds on in-bounds tile t is a living agent.
LivingAgentOn(t) ==
    /\ t \in Tiles
    /\ things[t] > 0
    /\ objs[things[t]].energy > 0

\* C15: for every EAT that targets a living agent, whatever the prey's
\* recycling policy (EVERLASTING included), the energy the predator gains
\* from the bite (its energy change beyond step_cost) equals the energy
\* actually removed from the prey. (Stated for the predators whose energy
\* can change, those that are not EVERLASTING.)
C15_GainIsLoss ==
    [][ActStep(EAT) => \A d \in XY_8_DELTAS :
        (/\ objs[Actor].recycling # EVERLASTING
         /\ LivingAgentOn(Destination(Actor, d))
         /\ EatTurn(Actor, d))
        => LET prey == things[Destination(Actor, d)]
           IN  objs'[Actor].energy - EnergyAfterStepCost(Actor) =
                   objs[prey].energy - objs'[prey].energy]_vars

\* In-bounds tile t gives nothing to predator id: it is empty, holds a
\* Block, holds a dead agent, or the predator has no room left.
NoTransferTarget(id, t) ==
    /\ t \in Tiles
    /\ \/ things[t] = NoThing
       \/ IsBlockRef(things[t])
       \/ things[t] > 0 /\ objs[things[t]].energy = 0
       \/ things[t] > 0 /\ Bite(id) = 0

\* No agent changes position in the step.
NobodyMoved == \A other \in DOMAIN objs :
    objs'[other].position = objs[other].position

\* C16: an EAT whose target tile is empty, holds a Block, or holds an agent
\* from which zero energy is transferred (a dead prey, or a predator with
\* no room) is a failed action with action_delta = 0: success is false,
\* the predator's energy changes by step_cost only whatever the
\* energy_ratio of EAT, and no other entity's energy or position changes.
C16_EmptyBiteCostsStepOnly ==
    [][ActStep(EAT) => \A d \in XY_8_DELTAS :
        (/\ GateOpen(Actor, EAT)
         /\ NoTransferTarget(Actor, Destination(Actor, d))
         /\ EatTurn(Actor, d))
        => /\ Rejected(Actor)
           /\ NobodyMoved
           /\ objs'[Actor].energy = EnergyAfterStepCost(Actor)]_vars

\* No agent other than id loses energy in the step.
NoOtherLoses(id) == \A other \in DOMAIN objs :
    other # id => objs'[other].energy >= objs[other].energy

\* C17: an EAT by an agent on a border tile toward an offset that falls
\* outside the grid (a negative coordinate, or one >= width or height) is
\* a soft failure: the simulation continues, success is false, and no
\* agent elsewhere on the grid loses energy.
C17_OutOfGridBiteFailsSoftly ==
    [][ActStep(EAT) => \A d \in XY_8_DELTAS :
        (Destination(Actor, d) \notin Tiles /\ EatTurn(Actor, d))
        => /\ fatal' = "none"
           /\ ~objs'[Actor].chosen_action_success
           /\ NoOtherLoses(Actor)]_vars

\* The tick has just begun: pre_step is done and no agent has acted yet.
TickStart == pc = "act" /\ last.op = "pre_step"

\* The living agents of world.agents stand in order of non-increasing
\* energy. It is the order in which step() will ask them to act.
LivingByEnergy ==
    \A i, j \in 1 .. Len(agents) :
        (/\ i < j
         /\ is_alive(objs[agents[i]])
         /\ is_alive(objs[agents[j]]))
        => objs[agents[i]].energy >= objs[agents[j]].energy

\* C18: in every tick, the first one after construction included, living
\* agents are asked to act in order of non-increasing energy as measured at
\* the start of the tick. step() walks world.agents in list order and any
\* two agents alive at the start may both act (the earlier one may REST),
\* so the claim is that at the start of a tick the living agents of the
\* list are in that order.
C18_ActInEnergyOrder == TickStart => LivingByEnergy

\* A step that is a post_step run to its end, sort included.
PostStepDone == pc = "act" /\ last'.op = "post_step" /\ fatal' = "none"

\* The place of agent id in the list.
PlaceIn(list, id) == CHOOSE k \in 1 .. Len(list) : list[k] = id

\* The list 'after' holds the agents of the list 'before', each once.
IsPermutation(before, after) ==
    /\ Len(after) = Len(before)
    /\ \A k \in 1 .. Len(before) :
         Cardinality({j \in 1 .. Len(after) : after[j] = before[k]}) =
         Cardinality({j \in 1 .. Len(before) : before[j] = before[k]})

\* C19: after every post-step, world.agents is a permutation of the list
\* before the sort, ordered by energy descending and stable on ties (two
\* agents of equal energy keep their previous relative order), the
\* energies being those after the respawns of the post-step.
C19_StableSortByEnergy ==
    [][PostStepDone =>
        /\ IsPermutation(agents, agents')
        /\ \A i, j \in 1 .. Len(agents') :
             i < j => objs'[agents'[i]].energy >= objs'[agents'[j]].energy
        /\ \A i, j \in 1 .. Len(agents) :
             (i < j /\ objs'[agents[i]].energy = objs'[agents[j]].energy)
             => PlaceIn(agents', agents[i]) < PlaceIn(agents', agents[j])]_vars

\* C19 witness: the post-step of the first tick has respawned the second
\* agent (full energy, steps back at 0), whose energy now equals that of
\* the first, and the sort has left the first ahead of it.
C19_Witness ==
    /\ last.op = "post_step" /\ fatal = "none" /\ current_step = 1
    /\ agents = <<1, 2>>
    /\ objs[2].recycling = RESPAWNABLE
    /\ objs[2].steps = 0
    /\ objs[2].energy = objs[2].max_energy
    /\ objs[1].steps = 1
    /\ objs[1].energy = objs[2].energy

\* A step in which an agent resolves an action, of whatever kind.
AnyActStep == pc = "act" /\ last'.op = "act"

\* The turn has come to the agent at place k of world.agents: the loop
\* stood at idx, and the agents from there up to k have no energy.
TurnCameTo(k) ==
    /\ k \in idx .. Len(agents)
    /\ \A j \in idx .. k - 1 : objs[agents[j]].energy <= 0

\* C20: within a tick each agent resolves at most one action, and resolves
\* one exactly when its energy is > 0 at the moment its turn comes: the
\* agent that acts is the first of the rest of the list with energy > 0
\* (the in-loop assertion energy > 0 holds), the agents before it, which
\* have none, are passed over where they stand, the loop moves past the
\* one that acted, and the loop ends only when no agent of the rest of
\* the list has energy. No agent stands twice in the list.
C20_OneActionIfAlive ==
    [][/\ AnyActStep =>
            \E k \in 1 .. Len(agents) :
                /\ agents[k] = last'.id
                /\ TurnCameTo(k)
                /\ objs[agents[k]].energy > 0
                /\ \A j \in idx .. k - 1 :
                     objs'[agents[j]].position = objs[agents[j]].position
                /\ idx' = k + 1
                /\ agents' = agents
       /\ (pc = "act" /\ last'.op = "post_step") =>
            \A j \in idx .. Len(agents) : objs[agents[j]].energy <= 0
       /\ \A i, j \in 1 .. Len(agents) : i # j => agents[i] # agents[j]
      ]_vars

\* C20 witness: the first agent of the list has bitten the second, which
\* was alive at the start of the tick and has not acted yet, down to 0:
\* the second agent's turn is next and no agent is left for the loop.
C20_Witness ==
    /\ pc = "act" /\ last.op = "act" /\ last.kind = EAT /\ fatal = "none"
    /\ Len(agents) = 2 /\ idx = 2
    /\ last.id = agents[1]
    /\ objs[agents[1]].chosen_action_success
    /\ objs[agents[2]].energy = 0
    /\ objs[agents[2]].current_energy_delta < 0
    /\ Pending = {}

\* A step that is a post_step, run to its end or not.
PostStepStep == pc = "act" /\ last'.op = "post_step"

\* C21: after the respawn of a dead RESPAWNABLE agent its energy is
\* max_energy, both touch maps are all zero, its color and intensity are
\* those it was created with, current_energy_delta is 0, and the value
\* respawn returns is max_energy minus the energy before the respawn.
C21_RespawnedFresh ==
    [][PostStepStep =>
        \A id \in Respawning(objs, agents) :
            /\ objs'[id].energy = objs[id].max_energy
            /\ objs'[id].negative_touch_map = ZeroTouchMap
            /\ objs'[id].positive_touch_map = ZeroTouchMap
            /\ ~objs'[id].dead_look
            /\ objs'[id].current_energy_delta = 0
            /\ respawn(objs[id]).used =
                   objs[id].max_energy - objs[id].energy]_vars

\* C21 witness: an agent that a bite killed in the first tick, and that
\* never acted, has been respawned by the post-step: it has full energy,
\* its original look and empty touch maps.
C21_Witness ==
    /\ last.op = "post_step" /\ fatal = "none" /\ current_step = 1
    /\ \E id \in DOMAIN objs :
         /\ objs[id].recycling = RESPAWNABLE
         /\ objs[id].steps = 0
         /\ objs[id].energy = objs[id].max_energy
         /\ objs[id].negative_touch_map = ZeroTouchMap
         /\ ~objs[id].dead_look
         /\ \E other \in DOMAIN objs :
              /\ other # id
              /\ objs[other].chosen_action_success
              /\ objs[other].current_energy_delta > 0

\* The grid has at least one empty tile.
SomeTileEmpty == \E t \in Tiles : things[t] = NoThing

\* At the end of a post-step that is run to its end no RESPAWNABLE agent
\* with max_energy > 0 is dead.
NoRespawnableDead ==
    fatal' = "none" =>
        \A id \in DOMAIN objs :
            (objs[id].recycling = RESPAWNABLE /\ objs[id].max_energy > 0)
            => objs'[id].energy > 0

\* The other agents the post-step respawns.
RespawningWith(id) == Respawning(objs, agents) \ {id}

\* C22: when a RESPAWNABLE agent has energy <= 0 at post-step and the grid
\* has at least one empty tile, at the end of the post-step the agent has
\* energy max_energy, occupies a tile that was empty before and differs
\* from the tile where it died, and the death tile is unoccupied with
\* energy 0; no RESPAWNABLE agent with max_energy > 0 is dead at the end
\* of any tick. (Read respawn by respawn: a tile counts as empty before
\* the respawn if it was empty before the post-step or was the death tile
\* of another agent the post-step respawns, and the death tile may be
\* taken again by such an agent.)
C22_RespawnRelocates ==
    [][PostStepStep =>
        /\ SomeTileEmpty =>
             \A id \in Respawning(objs, agents) :
                /\ objs'[id].energy = objs[id].max_energy
                /\ things'[objs'[id].position] = id
                /\ \/ things[objs'[id].position] = NoThing
                   \/ \E other \in RespawningWith(id) :
                        objs[other].position = objs'[id].position
                /\ objs'[id].position # objs[id].position
                /\ \/ /\ things'[objs[id].position] = NoThing
                      /\ energy_map'[objs[id].position] = 0
                   \/ \E other \in RespawningWith(id) :
                        /\ objs'[other].position = objs[id].position
                        /\ things'[objs[id].position] = other
        /\ NoRespawnableDead]_vars

\* C23: if a RESPAWNABLE agent is dead at post-step and no free tile can
\* be found for it (every tile of the grid is occupied), the respawn is a
\* fatal condition: the tick aborts instead of completing.
C23_RespawnWithoutTileIsFatal ==
    [][(PostStepStep /\ GridFull /\ Respawning(objs, agents) # {})
        => /\ fatal' # "none"
           /\ current_step' = current_step]_vars

\* C24: EVERLASTING agents never change energy: whatever the ticks and the
\* deltas applied (step cost, move cost, bites taken by predators, bite
\* gains), the energy of an EVERLASTING agent is the initial energy it was
\* created with, kept by every step, and its touch maps are never written.
C24_EverlastingKeepsEnergy ==
    [][/\ \A id \in DOMAIN objs :
            objs[id].recycling = EVERLASTING
            => /\ objs'[id].energy = objs[id].energy
               /\ objs'[id].negative_touch_map = ZeroTouchMap
               /\ objs'[id].positive_touch_map = ZeroTouchMap
       /\ \A id \in DOMAIN objs' \ DOMAIN objs :
            objs'[id].energy = adefs[cons.d].initial_energy
      ]_vars

\* C24 witness: a predator has fed on the only other agent, which is
\* EVERLASTING and stands there with its touch maps empty.
C24_Witness ==
    /\ last.op = "act" /\ last.kind = EAT /\ fatal = "none"
    /\ Len(agents) = 2 /\ DOMAIN objs = {1, 2}
    /\ objs[last.id].chosen_action_success
    /\ objs[last.id].current_energy_delta > 0
    /\ \E prey \in DOMAIN objs :
         /\ prey # last.id
         /\ objs[prey].recycling = EVERLASTING
         /\ objs[prey].energy > 0
         /\ objs[prey].negative_touch_map = ZeroTouchMap

\* Agent id, NON_RECHARGEABLE or RECHARGEABLE, had energy <= 0 at the end
\* of a tick: a tick is over and the agent has no energy, and if a later
\* tick is under way nothing has changed its energy in it.
DeadAtTickEnd(id) ==
    /\ objs[id].recycling \in {NON_RECHARGEABLE, RECHARGEABLE}
    /\ objs[id].energy <= 0
    /\ current_step >= 1
    /\ pc = "act" => objs[id].current_energy_delta = 0

\* C25: once an agent with policy NON_RECHARGEABLE or RECHARGEABLE has
\* energy <= 0 at the end of a tick, in every later state it is still a
\* member of world.agents, is still the occupant of the same tile, has
\* energy 0, and is never again asked for an action; the length of
\* world.agents never changes after construction.
C25_DeadStaysPut ==
    [][/\ \A id \in DOMAIN objs :
            DeadAtTickEnd(id)
            => /\ \E k \in 1 .. Len(agents') : agents'[k] = id
               /\ objs'[id].position = objs[id].position
               /\ things[objs[id].position] = id
               /\ things'[objs[id].position] = id
               /\ objs'[id].energy = 0
               /\ ~(last'.op = "act" /\ last'.id = id)
       /\ pc # "init" => Len(agents') = Len(agents)
      ]_vars

\* C26: whenever a living agent's chosen action has a kind other than
\* REST, MOVE or EAT, the tick aborts with a fatal error, whatever the
\* agent's energy (energy + step_cost < 0 included), and the offending
\* action changes neither the agent's energy nor its position.
C26_UnknownKindAborts ==
    [][ActStep(UNKNOWN) =>
        /\ fatal' # "none"
        /\ objs'[Actor].energy = objs[Actor].energy
        /\ objs'[Actor].position = objs[Actor].position]_vars

\* C27: a step() run to its end adds exactly one to the tick counter and no
\* other step changes the counter; when the counter after the increment is the
\* pause tick the world is PAUSED (paused true, step_by_step false), and for
\* any other value the step leaves paused and step_by_step as they were.
C27_TickCounterAndPauseTick ==
    [][/\ PostStepDone =>
            /\ current_step' = current_step + 1
            /\ IF current_step' = pause_step
               THEN paused' /\ ~step_by_step'
               ELSE UNCHANGED <<paused, step_by_step>>
       /\ ~PostStepDone => current_step' = current_step]_vars

\* A world that began in step-by-step mode has just been paused by its pause
\* tick.
C27_Witness ==
    /\ pc = "idle" /\ last.op = "post_step"
    /\ current_step = pause_step
    /\ paused /\ ~step_by_step

\* The main loop has been entered with a tick limit.
LimitedRun == pc = "idle" /\ exit_step # None

\* The main loop has ended because the tick limit was reached.
EndedAtLimit ==
    /\ pc = "ended" /\ end_reason = "EXIT STEP REACHED"
    /\ current_step = exit_step

\* C28: with a tick limit exit_step = N the main loop calls step() only while
\* current_step < N, so that current_step never exceeds N; the loop
\* eventually ends, and when the empty-world exit is not configured (no user
\* break either) it ends after exactly N ticks with EXIT STEP REACHED; with
\* no limit and no other condition is_end_loop does not return true.
C28_ExitStepEndsLoop ==
    /\ [][(exit_step # None /\ PreStep) => current_step < exit_step]_vars
    /\ [](exit_step # None => current_step <= exit_step)
    /\ LimitedRun ~> (pc = "ended")
    /\ (LimitedRun /\ ~exit_if_empty /\ ~user_break) ~> EndedAtLimit
    /\ []((exit_step = None /\ ~user_break
             /\ ~(exit_if_empty /\ n_active_agents = 0)) => ~is_end_loop.end)

\* The main loop is between two ticks (or before the first one).
TickBoundary == pc = "idle" /\ fatal = "none"

\* The number of agents of world.agents that have energy left.
WithEnergy ==
    Cardinality({k \in 1 .. Len(agents) : objs[agents[k]].energy > 0})

\* C29: at every tick boundary n_active_agents is the number of agents of
\* world.agents with energy > 0, respawns of the tick included; with
\* exit_if_empty the main loop ends at the first check that finds it 0, and
\* without exit_if_empty a world without living agents is stepped again
\* unless another end condition (user break, tick limit) holds.
C29_ActiveAgentsCounted ==
    /\ [](TickBoundary => n_active_agents = WithEnergy)
    /\ [][(TickBoundary /\ exit_if_empty /\ WithEnergy = 0)
             => (pc' = "ended"
                 /\ (~user_break => end_reason' = "EMPTY WORLD"))]_vars
    /\ [][(TickBoundary /\ ~exit_if_empty /\ WithEnergy = 0 /\ ~user_break
              /\ (exit_step = None \/ current_step < exit_step))
             => (pc' = "act" /\ last'.op = "pre_step")]_vars

\* After a tick in which the last living agent died, a world that is not to
\* exit when empty has been stepped again.
C29_Witness ==
    /\ pc = "act" /\ last.op = "pre_step"
    /\ current_step >= 1
    /\ \E k \in 1 .. Len(agents) : objs[agents[k]].steps >= 1
    /\ n_active_agents = 0 /\ WithEnergy = 0

\* C30: while the world is PAUSED the main loop calls no step() and the tick
\* counter does not advance (no external input reaches the world in
\* main_loop, so that a paused world stays paused).
C30_NoStepWhilePaused ==
    [][paused => (~(pc = "idle" /\ pc' = "act")
                  /\ current_step' = current_step)]_vars

\* C31: the respawn of an agent leaves its step counter as it was, so that
\* the steps of every agent never decrease in a run.
C31_StepsSurviveRespawn ==
    [][/\ PostStepStep =>
            \A id \in Respawning(objs, agents) :
                objs'[id].steps = objs[id].steps
       /\ \A id \in DOMAIN objs : objs'[id].steps >= objs[id].steps]_vars

\* The agents other than the actor that lose energy in the step: the prey
\* of a bite.
Bitten ==
    {q \in DOMAIN objs : q # Actor /\ objs'[q].energy < objs[q].energy}

\* C32: the actual energy delta a non-EVERLASTING agent at tile a gets from
\* source tile s is added to the touch-map cell
\* (1 + s.y - a.y, 1 + s.x - a.x), of the negative map when it is negative
\* (the positive map is left alone), and for an adjacent source the cell is
\* within the 3x3 map. (Stated for the prey of a bite, whose maps are the
\* ones that outlive the action.)
C32_TouchCellByYThenX ==
    [][ActStep(EAT) =>
         \A q \in Bitten :
            LET s == objs[Actor].position
                a == objs[q].position
                cell == <<1 + s[2] - a[2], 1 + s[1] - a[1]>>
            IN  /\ cell \in (0 .. 2) \X (0 .. 2)
                /\ objs'[q].negative_touch_map =
                       [objs[q].negative_touch_map EXCEPT
                          ![cell] = @ + (objs'[q].energy - objs[q].energy)]
                /\ objs'[q].positive_touch_map = objs[q].positive_touch_map]_vars

\* The agents whose energy update_energy changes.
Mortal == {id \in DOMAIN objs : objs[id].recycling # EVERLASTING}

\* C33: for every non-EVERLASTING agent that the post-step does not respawn,
\* the current_energy_delta its learning hook is handed is its energy at the
\* end of the act phase minus its energy at the start of the tick. Stated
\* step by step: pre_step leaves the energy and sets the net change to 0,
\* every action changes the net change of every agent by what its energy
\* changed (its own costs and gains, and what a predator took from it), and
\* post_step hands over the net change as it found it.
C33_NetDeltaIsEnergyChange ==
    [][/\ (pc = "idle" /\ last'.op = "pre_step") =>
            \A id \in Mortal :
               /\ objs'[id].current_energy_delta = 0
               /\ objs'[id].energy = objs[id].energy
       /\ AnyActStep =>
            \A id \in Mortal :
               objs'[id].current_energy_delta - objs[id].current_energy_delta
                  = objs'[id].energy - objs[id].energy
       /\ PostStepStep =>
            \A id \in Mortal \ Respawning(objs, agents) :
               /\ objs'[id].current_energy_delta
                     = objs[id].current_energy_delta
               /\ objs'[id].energy = objs[id].energy]_vars

\* The act phase of a tick is over, in which an agent lost more than its
\* own costs can be (a predator took energy from it) and another one ends
\* with a net gain from its bite.
C33_Witness ==
    /\ pc = "act" /\ fatal = "none" /\ Pending = {}
    /\ \E id \in Mortal :
          objs[id].current_energy_delta < -(StepCost + MoveCost)
    /\ \E id \in Mortal : objs[id].current_energy_delta > 0

\* C34: between operations the grid arrays agree: a tile is marked occupied
\* in occupation_bitmap (0) exactly when things holds an entity there; every
\* entity things holds at a tile has that tile as its position and is in
\* world.agents or world.blocks; and every member of world.agents and
\* world.blocks is the entity things holds at its own position.
C34_GridArraysConsistent ==
    /\ \A t \in Tiles : (occupation_bitmap[t] = 0) <=> (things[t] # NoThing)
    /\ \A t \in Tiles :
          /\ IsAgentRef(things[t]) =>
                /\ \E k \in 1 .. Len(agents) : agents[k] = things[t]
                /\ objs[things[t]].position = t
          /\ IsBlockRef(things[t]) =>
                /\ -things[t] \in 1 .. Len(blocks)
                /\ blocks[-things[t]] = t
    /\ \A k \in 1 .. Len(agents) :
          /\ objs[agents[k]].position \in Tiles
          /\ things[objs[agents[k]].position] = agents[k]
    /\ \A k \in 1 .. Len(blocks) :
          blocks[k] \in Tiles /\ things[blocks[k]] = -k

\* C35: the scheduler is in one control state at a time: paused and
\* step_by_step are never both true, in the initial state of every
\* configuration (a paused start included) and after any sequence of key
\* strokes and ticks.
C35_OneControlState == ~(paused /\ step_by_step)

\* A step that is a call of process_key_stroke.
KeyStep == pc = "idle" /\ last'.op = "key"

\* C36: user_break becomes true only by a Q or q key stroke received while
\* the world is paused or step-by-step, and Q while RUNNING changes nothing;
\* once true it is never cleared, is_end_loop then returns true with end
\* reason USER BREAK whatever exit_step and exit_if_empty are, and no further
\* step() is executed. Key strokes change no agent energy or position, nor
\* the grid, nor the tick counter.
C36_UserBreakByQuitKey ==
    /\ [][(~user_break /\ user_break') =>
            (KeyStep /\ last'.kind \in {"Q", "q"}
               /\ (paused \/ step_by_step))]_vars
    /\ [][(KeyStep /\ last'.kind \in {"Q", "q"}
              /\ ~(paused \/ step_by_step)) =>
            UNCHANGED <<paused, step_by_step, user_break, tracked_agent>>]_vars
    /\ [][user_break => user_break']_vars
    /\ []((user_break /\ pc = "idle" /\ fatal = "none") =>
            (is_end_loop.end /\ is_end_loop.end_reason = "USER BREAK"))
    /\ [][user_break => ~(pc = "idle" /\ pc' = "act")]_vars
    /\ [][KeyStep =>
            UNCHANGED <<objs, agents, blocks, things, energy_map,
                        occupation_bitmap, current_step>>]_vars

\* After at least one tick the user's Q ended a run that has a tick limit
\* not yet reached.
C36_Witness ==
    /\ pc = "ended" /\ end_reason = "USER BREAK"
    /\ user_break
    /\ current_step >= 1
    /\ exit_step # None /\ current_step < exit_step

\* The place in world.agents that comes j places after place k, in cyclic
\* order.
PlaceAfter(k, j) == ((k - 1 + j) % Len(agents)) + 1

\* The numbers of places after the tracked agent at which there is another
\* agent with energy left and an action strategy.
Candidates ==
    {j \in 1 .. Len(agents) - 1 :
        LET a == objs[agents[PlaceAfter(IndexOf(agents, tracked_agent), j)]]
        IN  a.energy > 0 /\ a.action # None}

\* C37: the handling of the Tab key ends after at most len(agents) turns of
\* its loop and leaves tracked_agent a member of world.agents: the first
\* agent after the tracked one, in the cyclic order of the list, that has
\* energy > 0 and an action strategy, or the tracked agent itself when no
\* other agent qualifies.
C37_TabTracksNextCandidate ==
    /\ [](pc # "init" => \E k \in 1 .. Len(agents) : agents[k] = tracked_agent)
    /\ [][(KeyStep /\ last'.kind = "Tab") =>
            /\ TabSearch(objs, agents, IndexOf(agents, tracked_agent),
                         IndexOf(agents, tracked_agent), 0).iterations
                  <= Len(agents)
            /\ \E k \in 1 .. Len(agents) : agents[k] = tracked_agent'
            /\ tracked_agent' =
                  IF Candidates = {} THEN tracked_agent
                  ELSE agents[PlaceAfter(
                           IndexOf(agents, tracked_agent),
                           CHOOSE j \in Candidates :
                              \A m \in Candidates : j <= m)]]_vars

\* Before the first tick, with the agents in the order of their creation,
\* Tab has taken the tracking from the first agent to the third, past a
\* second one that is dead or has no action strategy.
C37_Witness ==
    /\ last.op = "key" /\ last.kind = "Tab"
    /\ current_step = 0
    /\ Len(agents) = 3
    /\ tracked_agent = 3
    /\ ~(objs[2].energy > 0 /\ objs[2].action # None)

\* The act phase of a tick has run to its end.
ActPhaseOver == pc = "act" /\ fatal = "none" /\ Pending = {}

\* The sum over world.agents of the net energy change of the tick (what
\* each agent's energy changed since pre_step, see C33).
NetChangeOfTick ==
    SumSeq([k \in 1 .. Len(agents) |->
               objs[agents[k]].current_energy_delta], Len(agents))

\* C38: the act phase creates no energy: in a world without RESPAWNABLE
\* agents, whatever the other policies (EVERLASTING prey included) and the
\* actions chosen, the sum of the agents' energy at the end of a tick is at
\* most the sum at its start.
C38_NoEnergyCreated ==
    (/\ ActPhaseOver
     /\ \A k \in 1 .. Len(agents) : objs[agents[k]].recycling # RESPAWNABLE)
    => NetChangeOfTick <= 0

\* Every agent of the world is NON_RECHARGEABLE or RECHARGEABLE and pays
\* for every tick.
AllDrain ==
    \A k \in 1 .. Len(agents) :
       /\ objs[agents[k]].recycling \in {NON_RECHARGEABLE, RECHARGEABLE}
       /\ objs[agents[k]].step_cost < 0

\* Some agent had energy left when the tick began (its energy less the net
\* change of the tick, see C33).
AliveAtTickStart ==
    \E k \in 1 .. Len(agents) :
       objs[agents[k]].energy - objs[agents[k]].current_energy_delta > 0

\* The main loop has ended on an empty world.
EndedEmpty ==
    /\ pc = "ended" /\ end_reason = "EMPTY WORLD"
    /\ n_active_agents = 0
    /\ \A k \in 1 .. Len(agents) : objs[agents[k]].energy = 0

\* C39: in a world whose agents are all NON_RECHARGEABLE or RECHARGEABLE
\* with step_cost < 0, whatever the actions chosen, the total energy of the
\* agents strictly decreases in every tick that begins with an agent alive,
\* so that eventually every agent has energy 0 and n_active_agents is 0,
\* and the run of a world that exits when empty ends with EMPTY WORLD.
C39_DrainsToEmptyWorld ==
    /\ []((ActPhaseOver /\ AllDrain /\ AliveAtTickStart)
            => NetChangeOfTick < 0)
    /\ (pc = "idle" /\ AllDrain /\ exit_if_empty) ~> EndedEmpty

\* C40: at every tick boundary a non-EVERLASTING agent has the look of a
\* dead agent exactly when its energy is <= 0; an agent with energy > 0 at
\* the end of a tick has its original look, also when its energy was 0 for
\* a moment in the tick (step_cost of an EAT) and rose again with the bite.
C40_DeadLookIffNoEnergy ==
    TickBoundary =>
        \A k \in 1 .. Len(agents) :
           objs[agents[k]].recycling # EVERLASTING =>
              (objs[agents[k]].dead_look <=> objs[agents[k]].energy <= 0)

====
